---- MODULE Spec2Model ----
(***************************************************************************)
(* Model of anom_app.py: a Streamlit page that loads an uploaded .xlsx or  *)
(* .csv file into a table, shows overview and anomaly figures, classifies  *)
(* the rows into unique and duplicated combinations of a column selection  *)
(* and offers the two partitions as a zip of spreadsheets.                 *)
(*                                                                         *)
(* One state of the model is the state of a browser session after a script *)
(* run: the uploaded file, the widget values, and what the run put on the  *)
(* page.  Every user interaction re-runs main() from the top.              *)
(***************************************************************************)
EXTENDS Integers, Sequences, FiniteSets, TLC

\* ------------------------------------------------------------------ bounds
MaxRows == 3        \* data rows of an uploaded .csv file
MaxSheetRows == 2   \* data rows of an uploaded .xlsx file
MaxReplaceRows == 0 \* data rows of a file uploaded over a loaded one
MaxGroupRows == 5   \* data rows of the tables of the classification runs

\* ------------------------------------------------------- tables and files
NaN == 0                               \* the missing-value marker of a cell
columns == <<"A", "B">>                \* df.columns, in table order
ColumnNames == {columns[i] : i \in 1..Len(columns)}
\* What a cell of a modelled table holds, by column.
Cells(c) == IF c = "A" THEN {NaN, 1, 2} ELSE {NaN, 1}
\* One line of the file below the header.
Record == {r \in [ColumnNames -> {NaN, 1, 2}] : \A c \in ColumnNames : r[c] \in Cells(c)}

None == [none |-> TRUE]                \* Python's None

SeqUpTo(S, n) == UNION {[1..k -> S] : k \in 0..n}

\* An uploaded file: the extension of its name, whether its bytes parse as
\* the format the extension announces, whether its bytes are valid UTF-8,
\* and the lines below its header.  A file that does not parse has no lines.
Tables == SeqUpTo(Record, MaxRows)
Sheets == SeqUpTo(Record, MaxSheetRows)
Files ==
    [ext : {"csv"}, wellformed : {TRUE}, utf8 : BOOLEAN, records : Tables]
    \cup [ext : {"csv"}, wellformed : {FALSE}, utf8 : BOOLEAN, records : {<< >>}]
    \cup [ext : {"xlsx"}, wellformed : {TRUE}, utf8 : {TRUE}, records : Sheets]
    \cup [ext : {"xlsx"}, wellformed : {FALSE}, utf8 : {TRUE}, records : {<< >>}]

\* A DataFrame: its column labels in order, and its rows in order, each
\* with its index label and its cells by column label.
DataFrame(recs) ==
    [columns |-> columns,
     rows |-> [i \in 1..Len(recs) |-> [index |-> i - 1, cells |-> recs[i]]]]

Min(a, b) == IF a < b THEN a ELSE b

RECURSIVE SumSeq(_)
SumSeq(s) == IF s = << >> THEN 0 ELSE Head(s) + SumSeq(Tail(s))

\* --------------------------------------------------------------- load_data
\* The text of a .csv upload, one character per byte, as the lines between
\* its newlines: the header line "A,B", then per record its cells (a digit,
\* or nothing for a missing cell) with the separators between them.  A file
\* that is not valid UTF-8 carries one more (high) byte, at the end of its
\* header line.
Digits == <<"1", "2", "3", "4", "5", "6", "7", "8", "9">>
RECURSIVE Join(_)
Join(fields) ==
    IF Len(fields) = 1 THEN fields[1]
    ELSE fields[1] \o <<",">> \o Join(Tail(fields))
CellText(v) == IF v = NaN THEN << >> ELSE <<Digits[v]>>
HeaderLine(f) ==
    Join([k \in 1..Len(columns) |-> <<columns[k]>>])
        \o (IF f.utf8 THEN << >> ELSE <<"E9">>)
RecordLine(r) == Join([k \in 1..Len(columns) |-> CellText(r[columns[k]])])
Lines(f) == <<HeaderLine(f)>> \o [i \in 1..Len(f.records) |-> RecordLine(f.records[i])]

\* Size in bytes: each line and its newline.
HeaderBytes(f) == Len(HeaderLine(f)) + 1
RecordBytes(r) == Len(RecordLine(r)) + 1
FileBytes(f) == HeaderBytes(f) + SumSeq([i \in 1..Len(f.records) |-> RecordBytes(f.records[i])])

\* read_csv reads the upload through a text layer: the parser asks it for
\* ParserChunkBytes characters at a time, and the layer takes from the
\* stream what it is asked for, and never less than IOChunkBytes, before
\* it decodes.
IOChunkBytes == 8192
ParserChunkBytes == 262144
TextRead(size, n) == Min(size, IF n > IOChunkBytes THEN n ELSE IOChunkBytes)

\* pd.read_csv(uploaded_file, encoding='utf-8') on a stream at offset 0: the
\* outcome and the offset the stream is left at.  Decoding fails on the
\* first read, whose bytes hold the header, after the stream gave them.
read_csv_utf8(f) ==
    IF ~f.utf8
    THEN [raised |-> "UnicodeDecodeError", df |-> None,
          pos |-> TextRead(FileBytes(f), ParserChunkBytes)]
    ELSE IF ~f.wellformed
    THEN [raised |-> "ParserError", df |-> None, pos |-> FileBytes(f)]
    ELSE [raised |-> "none", df |-> DataFrame(f.records), pos |-> FileBytes(f)]

\* The lines of the text left at a byte offset: the rest of the line the
\* offset falls in, then the lines after it.
RECURSIVE LinesFrom(_, _)
LinesFrom(lines, pos) ==
    IF lines = << >> THEN << >>
    ELSE IF pos > Len(Head(lines)) THEN LinesFrom(Tail(lines), pos - (Len(Head(lines)) + 1))
    ELSE <<SubSeq(Head(lines), pos + 1, Len(Head(lines)))>> \o Tail(lines)
NotBlank(line) == line # << >>
RECURSIVE SplitFields(_, _)
SplitFields(line, field) ==
    IF line = << >> THEN <<field>>
    ELSE IF Head(line) = "," THEN <<field>> \o SplitFields(Tail(line), << >>)
    ELSE SplitFields(Tail(line), Append(field, Head(line)))
ParseCell(field) ==
    IF field = << >> THEN NaN ELSE CHOOSE v \in 1..Len(Digits) : Digits[v] = field[1]
\* The column label read_csv makes of a header field: "Unnamed: k" for an
\* empty field at position k, the text of the field otherwise, and the
\* text with ".1" after it when the field before it holds the same text.
\* ("E9" writes the character of the high byte.)
Unnamed == <<"Unnamed: 0", "Unnamed: 1">>
Repeated == <<"1.1", "2.1", "3.1", "4.1", "5.1", "6.1", "7.1", "8.1", "9.1">>
FieldText(field) ==
    IF Len(field) = 1 THEN field[1] ELSE "BE9"
Label(header, k) ==
    IF header[k] = << >> THEN Unnamed[k]
    ELSE IF \E j \in 1..(k - 1) : header[j] = header[k] THEN Repeated[ParseCell(header[k])]
    ELSE FieldText(header[k])
\* The frame read_csv makes of lines of text: blank lines are skipped, the
\* first line left is the header, and when the data lines have one field
\* more than the header their first field is the index.
Labels(header) == [k \in 1..Len(header) |-> Label(header, k)]
DataFields(lines) == [i \in 1..(Len(lines) - 1) |-> SplitFields(lines[i + 1], << >>)]
LeadingColumns(header, data) ==
    IF data # << >> /\ Len(data[1]) = Len(header) + 1 THEN 1 ELSE 0
RowCells(labels, fields, lead) ==
    [c \in {labels[k] : k \in 1..Len(labels)} |->
        ParseCell(fields[lead + CHOOSE k \in 1..Len(labels) : labels[k] = c])]
FrameRows(labels, data, lead) ==
    [i \in 1..Len(data) |->
        [index |-> IF lead = 1 THEN ParseCell(data[i][1]) ELSE i - 1,
         cells |-> RowCells(labels, data[i], lead)]]
FrameOf(header, data) ==
    [columns |-> Labels(header),
     rows |-> FrameRows(Labels(header), data, LeadingColumns(header, data))]
ParsedFrame(lines) == FrameOf(SplitFields(Head(lines), << >>), DataFields(lines))

\* pd.read_csv(uploaded_file, encoding='latin-1') on the same stream, which
\* nobody rewound: it parses what is left after offset pos.  Nothing left
\* but newlines is EmptyDataError; otherwise the first line left, whole or
\* not, serves as the header and names the columns.
read_csv_latin1(f, pos) ==
    LET left == SelectSeq(LinesFrom(Lines(f), pos), NotBlank)
    IN  IF left = << >> THEN [raised |-> "EmptyDataError", df |-> None]
        ELSE IF ~f.wellformed THEN [raised |-> "ParserError", df |-> None]
        ELSE [raised |-> "none", df |-> ParsedFrame(left)]

\* pd.read_excel(uploaded_file): the sheet's lines up to the last one that
\* holds a value; a workbook that does not open raises.
RECURSIVE TrimTrailingEmpty(_)
TrimTrailingEmpty(recs) ==
    IF recs = << >> THEN << >>
    ELSE IF \A c \in ColumnNames : recs[Len(recs)][c] = NaN
    THEN TrimTrailingEmpty(SubSeq(recs, 1, Len(recs) - 1))
    ELSE recs
read_excel(f) ==
    IF f.wellformed
    THEN [raised |-> "none", df |-> DataFrame(TrimTrailingEmpty(f.records)), pos |-> 0]
    ELSE [raised |-> "BadZipFile", df |-> None, pos |-> 0]

ErrEncodage == [msg |-> "Erreur d'encodage"]
ErrChargement == [msg |-> "Erreur lors du chargement"]

Returns(df, error) == [df |-> df, error |-> error, raised |-> "none"]

\* (variant: load_data without its last `except Exception` handler)
load_data_NoCatchAll(f) ==
    LET body == IF f.ext = "xlsx" THEN read_excel(f)
                ELSE IF f.ext = "csv" THEN read_csv_utf8(f)
                ELSE [raised |-> "UnboundLocalError", df |-> None, pos |-> 0]
    IN  IF body.raised = "none" THEN Returns(body.df, None)
        ELSE IF body.raised = "UnicodeDecodeError"
        THEN LET again == read_csv_latin1(f, body.pos)
             IN  IF again.raised = "none" THEN Returns(again.df, None)
                 ELSE Returns(None, ErrEncodage)
        ELSE [df |-> None, error |-> None, raised |-> body.raised]

\* load_data(uploaded_file) -> (df, error).  raised names the exception that
\* leaves the function; the handlers let none out.
load_data(f) ==
    LET body == IF f.ext = "xlsx" THEN read_excel(f)
                ELSE IF f.ext = "csv" THEN read_csv_utf8(f)
                ELSE \* no branch binds df, so `return df, None` fails
                     [raised |-> "UnboundLocalError", df |-> None, pos |-> 0]
    IN  IF body.raised = "none" THEN Returns(body.df, None)
        ELSE IF body.raised = "UnicodeDecodeError"
        THEN LET again == read_csv_latin1(f, body.pos)
             IN  IF again.raised = "none" THEN Returns(again.df, None)
                 ELSE Returns(None, ErrEncodage)
        ELSE Returns(None, ErrChargement)

\* ------------------------------------------------- the dataframe library
Range(s) == {s[i] : i \in 1..Len(s)}
Reverse(s) == [i \in 1..Len(s) |-> s[Len(s) + 1 - i]]

\* df[selected_cols]: each row cut down to the selected columns, in the
\* order the user selected them.
Project(df, cols) ==
    [i \in 1..Len(df.rows) |-> [k \in 1..Len(cols) |-> df.rows[i].cells[cols[k]]]]

\* df[selected_cols] as a frame: the selected columns in the order of the
\* selection; the rows keep their index labels and only the selected cells.
Restrict(df, cols) ==
    [columns |-> cols,
     rows |-> [i \in 1..Len(df.rows) |->
        [index |-> df.rows[i].index,
         cells |-> [c \in Range(cols) |-> df.rows[i].cells[c]]]]]

\* factorize(): one pass with the list of the distinct present values met so
\* far; the label of a value is its position in that list (from 0), and a
\* missing value gets the sentinel -1.
PositionIn(uniques, v) == CHOOSE u \in 1..Len(uniques) : uniques[u] = v
RECURSIVE factorize_scan(_, _, _)
factorize_scan(vals, uniques, labels) ==
    IF vals = << >> THEN labels
    ELSE IF Head(vals) = NaN
    THEN factorize_scan(Tail(vals), uniques, Append(labels, -1))
    ELSE IF Head(vals) \in Range(uniques)
    THEN factorize_scan(Tail(vals), uniques,
                        Append(labels, PositionIn(uniques, Head(vals)) - 1))
    ELSE factorize_scan(Tail(vals), Append(uniques, Head(vals)),
                        Append(labels, Len(uniques)))
factorize(vals) == factorize_scan(vals, << >>, << >>)

\* get_group_index(labels, shape, sort=False, xnull=False): one id per row
\* from its labels; a column that holds the sentinel is lifted by one, so a
\* missing value is a value of its own and the ids stay non-negative.
RECURSIVE AddOne(_)
AddOne(lab) == IF lab = << >> THEN << >> ELSE <<Head(lab) + 1>> \o AddOne(Tail(lab))
maybe_lift(lab) == IF -1 \in Range(lab) THEN AddOne(lab) ELSE lab
RECURSIVE Column(_, _)
Column(keys, k) ==
    IF keys = << >> THEN << >> ELSE <<Head(keys)[k]>> \o Column(Tail(keys), k)
RECURSIVE Zip(_, _, _)
Zip(labels, i, n) ==
    IF i > n THEN << >>
    ELSE <<[k \in 1..Len(labels) |-> labels[k][i]]>> \o Zip(labels, i + 1, n)
RECURSIVE ColumnLabels(_, _, _)
ColumnLabels(keys, k, ncols) ==
    IF k > ncols THEN << >>
    ELSE <<maybe_lift(factorize(Column(keys, k)))>> \o ColumnLabels(keys, k + 1, ncols)
get_group_index(keys, ncols) == Zip(ColumnLabels(keys, 1, ncols), 1, Len(keys))

\* duplicated(ids, keep): one pass with a table of the ids seen so far and
\* the position each was first seen at.  keep='first' flags a row whose id
\* was seen before; keep=False flags that row and the first one as well.
RECURSIVE duplicated_scan(_, _, _, _, _)
duplicated_scan(ids, keep, i, seen, out) ==
    IF i > Len(ids) THEN out
    ELSE LET hit == {j \in seen : ids[j] = ids[i]}
         IN  IF hit = {}
             THEN duplicated_scan(ids, keep, i + 1, seen \cup {i}, Append(out, FALSE))
             ELSE LET j == CHOOSE j \in hit : TRUE
                      marked == Append(out, TRUE)
                  IN  duplicated_scan(ids, keep, i + 1, seen,
                          IF keep = "first" THEN marked
                          ELSE [marked EXCEPT ![j] = TRUE])

\* DataFrame.duplicated(keep) of the projection of df onto cols.
duplicated(df, cols, keep) ==
    duplicated_scan(get_group_index(Project(df, cols), Len(cols)), keep, 1, {}, << >>)

\* df[mask]: the rows whose flag is set, with their index labels, in order.
RECURSIVE SelectRows(_, _)
SelectRows(rows, mask) ==
    IF rows = << >> THEN << >>
    ELSE IF Head(mask) THEN <<Head(rows)>> \o SelectRows(Tail(rows), Tail(mask))
    ELSE SelectRows(Tail(rows), Tail(mask))
BooleanIndex(df, mask) == [columns |-> df.columns, rows |-> SelectRows(df.rows, mask)]

Not(mask) == [i \in 1..Len(mask) |-> ~mask[i]]
CountTrue(mask) == Cardinality({i \in 1..Len(mask) : mask[i]})

\* groupby(cols).size().reset_index(name='count'): one line per distinct
\* key, in ascending key order, with the number of rows that carry it.
\* groupby leaves out every row whose key holds a missing value (dropna).
LexLess(a, b) ==
    \E k \in 1..Len(a) : a[k] < b[k] /\ \A m \in 1..(k - 1) : a[m] = b[m]
RECURSIVE SortedKeys(_)
SortedKeys(S) ==
    IF S = {} THEN << >>
    ELSE LET lo == CHOOSE a \in S : \A b \in S \ {a} : LexLess(a, b)
         IN  <<lo>> \o SortedKeys(S \ {lo})
groupby_size(keys) ==
    LET kept == {i \in 1..Len(keys) : NaN \notin Range(keys[i])}
        order == SortedKeys({keys[i] : i \in kept})
    IN  [g \in 1..Len(order) |->
            [key |-> order[g],
             count |-> Cardinality({i \in kept : keys[i] = order[g]})]]

\* sort_values('count', ascending=False): the lines are reversed, sorted by
\* ascending count keeping the order of equal counts, and reversed again.
RECURSIVE InsertByCount(_, _)
InsertByCount(x, sorted) ==
    IF sorted = << >> THEN <<x>>
    ELSE IF x.count < Head(sorted).count THEN <<x>> \o sorted
    ELSE <<Head(sorted)>> \o InsertByCount(x, Tail(sorted))
RECURSIVE SortAscending(_, _)
SortAscending(todo, done) ==
    IF todo = << >> THEN done
    ELSE SortAscending(Tail(todo), InsertByCount(Head(todo), done))
sort_values_desc(groups) == Reverse(SortAscending(Reverse(groups), << >>))

\* ------------------------------------------------------- the page sections
\* (variant: the metric counted with keep=False)
data_overview_KeepFalse(df) == CountTrue(duplicated(df, df.columns, "keep_false"))
\* data_overview(df): the "Lignes dupliquees" metric.
data_overview(df) == CountTrue(duplicated(df, df.columns, "first"))

\* anomaly_analysis(df): total_duplicates.
anomaly_analysis(df) == CountTrue(duplicated(df, df.columns, "first"))

DefaultUnique == "lignes_uniques"
DefaultDuplicate == "lignes_dupliquees"
NotComputed == [computed |-> FALSE, groups |-> << >>]

\* The classification of duplicate_analysis: the flags, the two partitions
\* (all columns of df) and the group summary.
\* (variant: duplicated() with its default keep='first')
is_duplicate_KeepFirst(df, sel) == duplicated(df, sel, "first")
is_duplicate(df, sel) == duplicated(df, sel, "keep_false")
\* (variant: the unique rows taken as df.drop_duplicates(subset) would)
unique_rows_DropDuplicates(df, sel) ==
    BooleanIndex(df, Not(duplicated(df, sel, "first")))
unique_rows(df, sel) == BooleanIndex(df, Not(is_duplicate(df, sel)))
\* (variant: the duplicate rows taken from df_selected instead of df)
duplicate_rows_SelectedOnly(df, sel) ==
    BooleanIndex(Restrict(df, sel), is_duplicate(df, sel))
duplicate_rows(df, sel) == BooleanIndex(df, is_duplicate(df, sel))
\* (variant: sort_values('count') with its default ascending=True)
duplicate_groups_Ascending(df, sel) ==
    SortAscending(groupby_size(Project(BooleanIndex(df, is_duplicate(df, sel)), sel)), << >>)
duplicate_groups(df, sel) ==
    sort_values_desc(groupby_size(Project(BooleanIndex(df, is_duplicate(df, sel)), sel)))

\* The names of one call of duplicate_analysis and the objects behind them:
\* heap lists the objects in the order they came to be, and env gives the
\* object each name is bound to.  Object 1 is the table the caller passed,
\* which the caller's own name df keeps naming after the call.
Entry(df) == [heap |-> <<df>>, env |-> ("df" :> 1)]
Val(st, name) == st.heap[st.env[name]]
Caller(st) == st.heap[1]
\* name = <expression that builds a new object>: the object joins the heap
\* and the name is bound to it; no object already there changes.
Bind(st, name, value) ==
    [heap |-> Append(st.heap, value),
     env |-> (name :> (Len(st.heap) + 1)) @@ st.env]
\* The one outcome of a run of statements.
Only(outcomes) == CHOOSE out \in outcomes : TRUE

\* The statements of the analysis branch that bind a name, in source order.
\* Each reads the object that df names at that point; indexing with a list
\* or a mask, .copy(), duplicated(), groupby().size().reset_index() and
\* sort_values() all build a new object.
\* (variant: the repeats dropped from df itself first,
\*  df.drop_duplicates(subset=selected_cols, inplace=True))
assign_df_selected_DropInPlace(st, sel) ==
    Bind([st EXCEPT !.heap[st.env["df"]] =
              BooleanIndex(Val(st, "df"), Not(duplicated(Val(st, "df"), sel, "first")))],
         "df_selected", Restrict(Val(st, "df"), sel))
assign_df_selected(st, sel) ==
    Bind(st, "df_selected", Restrict(Val(st, "df"), sel))
assign_is_duplicate(st, sel) ==
    Bind(st, "is_duplicate", is_duplicate(Val(st, "df"), sel))
assign_unique_rows(st, sel) ==
    Bind(st, "unique_rows", unique_rows(Val(st, "df"), sel))
assign_duplicate_rows(st, sel) ==
    Bind(st, "duplicate_rows", duplicate_rows(Val(st, "df"), sel))
\* Under `if len(duplicate_rows) > 0`; the name is bound by the groupby
\* statement and bound again by the sort.
assign_duplicate_groups(st, sel) ==
    IF Len(Val(st, "duplicate_rows").rows) > 0
    THEN Bind(st, "duplicate_groups", duplicate_groups(Val(st, "df"), sel))
    ELSE st
\* One statement after another: each works on the names and objects the
\* one before it left.
analysis(df, sel) ==
    Only({assign_duplicate_groups(s4, sel) : s4 \in
         {assign_duplicate_rows(s3, sel) : s3 \in
         {assign_unique_rows(s2, sel) : s2 \in
         {assign_is_duplicate(s1, sel) : s1 \in
         {assign_df_selected(Entry(df), sel)}}}}})
\* What the branch hands back once its statements have run:
\* `return unique_rows, duplicate_rows, True, unique_filename,
\* duplicate_filename`, the summary if it was computed, and the caller's
\* table.
analysis_return(st, ufn, dfn) ==
    [ret |-> <<Val(st, "unique_rows"), Val(st, "duplicate_rows"), TRUE, ufn, dfn>>,
     widgets |-> {"multiselect", "text_input", "button"},
     shown |-> {"results"},
     duplicate_groups |->
         IF "duplicate_groups" \in DOMAIN st.env
         THEN [computed |-> TRUE, groups |-> Val(st, "duplicate_groups")]
         ELSE NotComputed,
     df |-> Caller(st)]

\* (variant: the analysis not gated by the button)
st_button_Always(clicked) == TRUE
\* st.button(...): TRUE only in the run that its click triggered.
st_button(clicked) == clicked

\* duplicate_analysis(df): the tuple it returns, the widgets it rendered,
\* what it displayed, and df as the call leaves it.  sel, ufn, dfn and clicked are what the multiselect,
\* the two text inputs and the button return in this run.
duplicate_analysis(df, sel, ufn, dfn, clicked) ==
    IF sel = << >>
    THEN [ret |-> <<None, None, FALSE>>,
          widgets |-> {"multiselect"}, shown |-> {"warning_select"},
          duplicate_groups |-> NotComputed, df |-> df]
    ELSE IF st_button(clicked)
    THEN Only({analysis_return(st, ufn, dfn) : st \in {analysis(df, sel)}})
    ELSE [ret |-> <<None, None, FALSE, None, None>>,
          widgets |-> {"multiselect", "text_input", "button"},
          shown |-> {},
          duplicate_groups |-> NotComputed, df |-> df]

\* create_download_zip: the archive's list of entries in the order written,
\* and its name table, in which a later entry of the same name replaces the
\* earlier one.
empty(frame) == frame.rows = << >> \/ frame.columns = << >>
\* to_excel(writer, index=False, sheet_name=...): the sheet holds the
\* frame's column header and the cells of each row, without the index
\* labels.
to_excel(frame, sheet_name) ==
    [sheet |-> sheet_name,
     header |-> frame.columns,
     rows |-> [i \in 1..Len(frame.rows) |->
                  [k \in 1..Len(frame.columns) |-> frame.rows[i].cells[frame.columns[k]]]]]
writestr(zip, name, data) ==
    [filelist |-> Append(zip.filelist, [name |-> name, data |-> data]),
     NameToInfo |-> [n \in (DOMAIN zip.NameToInfo) \cup {name} |->
                        IF n = name THEN Len(zip.filelist) + 1 ELSE zip.NameToInfo[n]]]
EmptyZip == [filelist |-> << >>, NameToInfo |-> [n \in {} |-> 0]]
create_download_zip(unique_df, duplicate_df, unique_filename, duplicate_filename) ==
    LET z1 == IF unique_df # None /\ ~empty(unique_df)
              THEN writestr(EmptyZip, [stem |-> unique_filename, ext |-> "xlsx"],
                            to_excel(unique_df, "Lignes_Uniques"))
              ELSE EmptyZip
    IN  IF duplicate_df # None /\ ~empty(duplicate_df)
        THEN writestr(z1, [stem |-> duplicate_filename, ext |-> "xlsx"],
                      to_excel(duplicate_df, "Lignes_Dupliquees"))
        ELSE z1

\* main(): one script run.  What it leaves on the page: the result of
\* load_data, the sections shown, the exception that ended the run if any,
\* the two duplicate counts, what duplicate_analysis returned and displayed,
\* the archive behind the download button, and the table that
\* visualizations(df) is given after the combination tab.
BlankPage ==
    [loaded |-> Returns(None, None), shown |-> {}, widgets |-> {},
     raised |-> "none", overview_duplicates |-> 0, total_duplicates |-> 0,
     result |-> << >>, duplicate_groups |-> NotComputed, zip_buffer |-> None,
     visualized |-> None]
main(file, sel, ufn, dfn, clicked) ==
    IF file = None
    THEN [BlankPage EXCEPT !.shown = {"info_upload"}]
    ELSE LET loaded == load_data(file) IN
    IF loaded.raised # "none"
    THEN [BlankPage EXCEPT !.loaded = loaded, !.raised = loaded.raised]
    ELSE IF loaded.error # None
    THEN [BlankPage EXCEPT !.loaded = loaded, !.shown = {"error"}]
    ELSE IF loaded.df = None
    THEN [BlankPage EXCEPT !.loaded = loaded]
    ELSE LET df == loaded.df
             da == duplicate_analysis(df, sel, ufn, dfn, clicked)
             result == da.ret
             upto3 == [BlankPage EXCEPT
                          !.loaded = loaded,
                          !.shown = {"success", "tab1", "tab2", "tab3"} \cup da.shown,
                          !.widgets = da.widgets,
                          !.overview_duplicates = data_overview(df),
                          !.total_duplicates = anomaly_analysis(df),
                          !.result = result,
                          !.duplicate_groups = da.duplicate_groups]
         IN  IF Len(result) = 5
             THEN IF result[3] /\ (result[1] # None \/ result[2] # None)
                  THEN [upto3 EXCEPT
                           !.shown = @ \cup {"download_button", "tab4"},
                           !.visualized = da.df,
                           !.zip_buffer = create_download_zip(
                               result[1], result[2], result[4], result[5])]
                  ELSE [upto3 EXCEPT !.shown = @ \cup {"tab4"}, !.visualized = da.df]
             ELSE \* unique_combinations, duplicate_combinations = result
                  IF Len(result) = 2
                  THEN [upto3 EXCEPT !.shown = @ \cup {"tab4"}, !.visualized = da.df]
                  ELSE [upto3 EXCEPT !.raised = "ValueError"]

\* ------------------------------------------------------------ the session
VARIABLES
    uploaded_file,        \* what st.file_uploader returns: None or the file
    selected_cols,        \* what the multiselect returns
    unique_filename,      \* what the first text input returns
    duplicate_filename,   \* what the second text input returns
    event,                \* the interaction that triggered the last run
    page                  \* what the last run of main() left on the page
vars == <<uploaded_file, selected_cols, unique_filename, duplicate_filename, event, page>>

FileNames == {DefaultUnique, DefaultDuplicate}

\* One script run on the given widget values.  A widget the run did not
\* render loses its value and is back at its default in the next run.
Rerun(file, sel, ufn, dfn, clicked, ev) ==
    /\ page' = main(file, sel, ufn, dfn, clicked)
    /\ uploaded_file' = file
    /\ selected_cols' = IF "multiselect" \in page'.widgets THEN sel ELSE << >>
    /\ unique_filename' = IF "text_input" \in page'.widgets THEN ufn ELSE DefaultUnique
    /\ duplicate_filename' = IF "text_input" \in page'.widgets THEN dfn ELSE DefaultDuplicate
    /\ event' = ev

Init ==
    /\ uploaded_file = None
    /\ selected_cols = << >>
    /\ unique_filename = DefaultUnique
    /\ duplicate_filename = DefaultDuplicate
    /\ event = "start"
    /\ page = main(None, << >>, DefaultUnique, DefaultDuplicate, FALSE)

\* The uploader is on the page in every run; a file given to it replaces
\* the one it holds, and the other widgets keep their values.  Files given
\* to an empty uploader have up to MaxRows lines, files that replace a
\* loaded one up to MaxReplaceRows.
Upload(f) ==
    /\ uploaded_file # None => Len(f.records) <= MaxReplaceRows
    /\ Rerun(f, selected_cols, unique_filename, duplicate_filename, FALSE, "upload")

RemoveFile ==
    /\ uploaded_file # None
    /\ Rerun(None, selected_cols, unique_filename, duplicate_filename, FALSE, "remove")

RemoveAt(s, c) == SelectSeq(s, LAMBDA x : x # c)

AddColumn(c) ==
    /\ "multiselect" \in page.widgets
    /\ c \in Range(page.loaded.df.columns)
    /\ c \notin Range(selected_cols)
    /\ Rerun(uploaded_file, Append(selected_cols, c), unique_filename,
             duplicate_filename, FALSE, "select")

RemoveColumn(c) ==
    /\ "multiselect" \in page.widgets
    /\ c \in Range(selected_cols)
    /\ Rerun(uploaded_file, RemoveAt(selected_cols, c), unique_filename,
             duplicate_filename, FALSE, "select")

EditUniqueFilename(n) ==
    /\ "text_input" \in page.widgets
    /\ n # unique_filename
    /\ Rerun(uploaded_file, selected_cols, n, duplicate_filename, FALSE, "edit")

EditDuplicateFilename(n) ==
    /\ "text_input" \in page.widgets
    /\ n # duplicate_filename
    /\ Rerun(uploaded_file, selected_cols, unique_filename, n, FALSE, "edit")

ClickAnalyse ==
    /\ "button" \in page.widgets
    /\ Rerun(uploaded_file, selected_cols, unique_filename, duplicate_filename,
             TRUE, "analyse")

ClickDownload ==
    /\ "download_button" \in page.shown
    /\ Rerun(uploaded_file, selected_cols, unique_filename, duplicate_filename,
             FALSE, "download")

Next ==
    \/ \E f \in Files : Upload(f)
    \/ RemoveFile
    \/ \E c \in ColumnNames : AddColumn(c)
    \/ \E c \in ColumnNames : RemoveColumn(c)
    \/ \E n \in FileNames : EditUniqueFilename(n)
    \/ \E n \in FileNames : EditDuplicateFilename(n)
    \/ ClickAnalyse
    \/ ClickDownload

Spec == Init /\ [][Next]_vars

\* Classification runs on longer tables: sessions that start with a loaded
\* .csv file of up to MaxGroupRows lines, in which the user only selects
\* columns and clicks the analysis button.  Column A holds two values and
\* column B a value or nothing, so that a summary can hold groups of
\* different sizes next to rows it leaves out.
GroupRecord == {r \in Record : r["A"] # NaN}
GroupFiles ==
    [ext : {"csv"}, wellformed : {TRUE}, utf8 : {TRUE},
     records : SeqUpTo(GroupRecord, MaxGroupRows)]
InitClassify ==
    \E f \in GroupFiles :
        /\ uploaded_file = f
        /\ selected_cols = << >>
        /\ unique_filename = DefaultUnique
        /\ duplicate_filename = DefaultDuplicate
        /\ event = "upload"
        /\ page = main(f, << >>, DefaultUnique, DefaultDuplicate, FALSE)
NextClassify ==
    \/ \E c \in ColumnNames : AddColumn(c)
    \/ \E c \in ColumnNames : RemoveColumn(c)
    \/ ClickAnalyse
SpecClassify == InitClassify /\ [][NextClassify]_vars

\* --------------------------------------------------------------- reading
\* The page of the last run, by the names the code gives its values.
TableLoaded == uploaded_file # None /\ page.loaded.df # None
Executed == Len(page.result) = 5 /\ page.result[3]
Table == page.loaded.df
UniqueRows == page.result[1]
DuplicateRows == page.result[2]
Indexes(frame) == {frame.rows[k].index : k \in 1..Len(frame.rows)}

\* Two rows of the table agree on every selected column; a missing cell
\* agrees with a missing cell.
Cell(i, c) == Table.rows[i].cells[c]
SameProjection(i, j, cols) == \A c \in Range(cols) : Cell(i, c) = Cell(j, c)
HasTwin(i, cols) ==
    \E j \in 1..Len(Table.rows) : j # i /\ SameProjection(i, j, cols)

\* ------------------------------------------------------------------ claims
\* C1: after an analysis run, a row of the table is in duplicateRows iff some
\* other row has the same projection onto the selected columns (missing
\* equal to missing), first occurrences included, and every other row is in
\* uniqueRows.
C1_DuplicateIffTwin ==
    Executed =>
        \A i \in 1..Len(Table.rows) :
            /\ (i - 1) \in Indexes(DuplicateRows) <=> HasTwin(i, selected_cols)
            /\ (i - 1) \in Indexes(UniqueRows) <=> ~HasTwin(i, selected_cols)
\* A repeated group that holds a missing value in a selected column, its
\* first occurrence among the duplicates, next to a unique row.
C1_Witness ==
    /\ Executed
    /\ \E i, j \in 1..Len(Table.rows) :
          /\ i < j /\ SameProjection(i, j, selected_cols)
          /\ \E c \in Range(selected_cols) : Cell(i, c) = NaN
          /\ \E c \in ColumnNames : Cell(i, c) # Cell(j, c)
          /\ (i - 1) \in Indexes(DuplicateRows)
    /\ UniqueRows.rows # << >>

\* C2: after an analysis run, every row index of the table is in exactly one
\* of uniqueRows and duplicateRows, and the two lengths add up to the
\* table's.
C2_Partition ==
    Executed =>
        /\ Len(UniqueRows.rows) + Len(DuplicateRows.rows) = Len(Table.rows)
        /\ Indexes(UniqueRows) \cap Indexes(DuplicateRows) = {}
        /\ Indexes(UniqueRows) \cup Indexes(DuplicateRows) = Indexes(Table)
        /\ Cardinality(Indexes(UniqueRows)) = Len(UniqueRows.rows)
        /\ Cardinality(Indexes(DuplicateRows)) = Len(DuplicateRows.rows)
C2_Witness ==
    /\ Executed
    /\ Len(UniqueRows.rows) = 1
    /\ Len(DuplicateRows.rows) = 2
    /\ Len(selected_cols) = 2

\* C10: after an analysis run, each row of uniqueRows and of duplicateRows
\* carries every column of the table with the value the uploaded file has in
\* that line, and each output lists its rows in table order.
KeepsRows(frame) ==
    /\ frame.columns = columns
    /\ \A k \in 1..Len(frame.rows) :
          /\ DOMAIN frame.rows[k].cells = ColumnNames
          /\ frame.rows[k].cells = uploaded_file.records[frame.rows[k].index + 1]
    /\ \A k, l \in 1..Len(frame.rows) :
          k < l => frame.rows[k].index < frame.rows[l].index
C10_AllColumnsInOrder == Executed => KeepsRows(UniqueRows) /\ KeepsRows(DuplicateRows)
\* One column selected, and both outputs hold rows that differ in the column
\* that is not selected.
C10_Witness ==
    /\ Executed
    /\ Len(selected_cols) = 1
    /\ Len(DuplicateRows.rows) >= 2
    /\ \E k, l \in 1..Len(DuplicateRows.rows) :
          DuplicateRows.rows[k].cells # DuplicateRows.rows[l].cells
    /\ UniqueRows.rows # << >>

\* C3: after an analysis run, the counts of the duplicate group summary add
\* up to the number of rows in duplicateRows, also when selected columns
\* hold missing values.
GroupCounts == [g \in 1..Len(page.duplicate_groups.groups) |->
                   page.duplicate_groups.groups[g].count]
C3_SummaryConsistency == Executed => SumSeq(GroupCounts) = Len(DuplicateRows.rows)

\* C4: with a table loaded and no column selected, the run warns, computes
\* no classification, offers no download, raises nothing and still renders
\* the tab after the combination tab.
C4_EmptySelectionRecoverable ==
    (TableLoaded /\ selected_cols = << >>) =>
        /\ page.raised = "none"
        /\ "warning_select" \in page.shown
        /\ ~Executed
        /\ "download_button" \notin page.shown
        /\ "tab4" \in page.shown

\* C5 as stated: the whole-row duplicate count of the overview and of the
\* anomaly summary is the number of rows that agree with at least one other
\* row on all columns, the size of duplicateRows for columns = all columns.
RowsWithTwin == {i \in 1..Len(Table.rows) : HasTwin(i, columns)}
C5_WholeRowCountIsClassification ==
    TableLoaded =>
        /\ page.overview_duplicates = Cardinality(RowsWithTwin)
        /\ page.total_duplicates = Cardinality(RowsWithTwin)
\* C5 as amended: both counts use that equality (missing equal to missing)
\* but count only the repeats after a first occurrence: the rows equal to an
\* earlier row, which is the row count less the number of distinct rows, and
\* is the size of duplicateRows for all columns less its number of groups.
Repeats == {i \in 1..Len(Table.rows) :
               \E j \in 1..(i - 1) : SameProjection(i, j, columns)}
C5_WholeRowCountIsRepeats ==
    TableLoaded =>
        LET all == duplicate_rows(Table, columns).rows
            combos == {all[k].cells : k \in 1..Len(all)}
        IN  /\ page.overview_duplicates = Cardinality(Repeats)
            /\ page.total_duplicates = Cardinality(Repeats)
            /\ Cardinality(Repeats) =
                   Len(Table.rows) - Cardinality({Table.rows[i].cells : i \in 1..Len(Table.rows)})
            /\ Cardinality(Repeats) = Len(all) - Cardinality(combos)
\* A repeated row with a missing cell: the count is 1, the classification
\* on all columns has two duplicate rows.
C5_Witness ==
    /\ TableLoaded
    /\ page.overview_duplicates = 1
    /\ Cardinality(RowsWithTwin) = 2
    /\ \E i \in RowsWithTwin : \E c \in ColumnNames : Cell(i, c) = NaN

\* C6: whatever makes loading fail, load_data raises nothing and returns
\* either a table and no error or no table and a message, never both; on a
\* message, main shows it and runs none of the four page sections.
C6_LoadFailuresReported ==
    uploaded_file # None =>
        /\ page.loaded.raised = "none"
        /\ (page.loaded.df = None) # (page.loaded.error = None)
        /\ ~uploaded_file.wellformed => page.loaded.error # None
        /\ page.loaded.error # None =>
              /\ page.raised = "none"
              /\ page.shown = {"error"}
              /\ page.widgets = {}
              /\ page.result = << >>
              /\ page.zip_buffer = None
C6_Witness ==
    /\ uploaded_file # None
    /\ uploaded_file.ext = "csv" /\ ~uploaded_file.wellformed
    /\ page.loaded.error = ErrChargement
    /\ page.shown = {"error"}

\* C7 as stated: the classification is recomputed in every run that follows
\* a change of the column selection to a non-empty set, and in every run the
\* analysis button triggers.
C7_RecomputedOnSelectionChange ==
    (TableLoaded /\ selected_cols # << >> /\ event \in {"select", "analyse"})
        => Executed
\* C7 as amended: the classification and the group summary are computed in
\* exactly the runs the analysis button triggers, on the column selection of
\* that run; every other run (selection change, filename edit, download
\* click) computes and shows no result and offers no download.
C7_RecomputedOnButtonOnly ==
    /\ Executed <=> (TableLoaded /\ event = "analyse")
    /\ Executed =>
          /\ selected_cols # << >>
          /\ "results" \in page.shown
          /\ Indexes(DuplicateRows) =
                {i - 1 : i \in {k \in 1..Len(Table.rows) : HasTwin(k, selected_cols)}}
          /\ \A g \in 1..Len(page.duplicate_groups.groups) :
                \E k \in 1..Len(DuplicateRows.rows) :
                    page.duplicate_groups.groups[g].key =
                        [c \in 1..Len(selected_cols) |->
                            DuplicateRows.rows[k].cells[selected_cols[c]]]
    /\ ~Executed =>
          /\ "results" \notin page.shown
          /\ "download_button" \notin page.shown
          /\ ~page.duplicate_groups.computed
          /\ page.zip_buffer = None
\* The run after a download click: columns are selected, a filename was
\* edited, and the page holds no result.
C7_Witness ==
    /\ TableLoaded
    /\ event = "download"
    /\ selected_cols # << >>
    /\ unique_filename # DefaultUnique
    /\ ~Executed
    /\ "results" \notin page.shown

\* C8: a .csv upload that is not valid UTF-8 but is a well-formed Latin-1
\* CSV loads through the Latin-1 fallback as the table of the whole file.
C8_Latin1Fallback ==
    (/\ uploaded_file # None
     /\ uploaded_file.ext = "csv"
     /\ ~uploaded_file.utf8
     /\ uploaded_file.wellformed)
        => /\ page.loaded.raised = "none"
           /\ page.loaded.error = None
           /\ page.loaded.df = DataFrame(uploaded_file.records)

\* C9: the archive behind the download button holds, under the name
\* <unique_filename>.xlsx, exactly the unique rows iff there are any, under
\* <duplicate_filename>.xlsx exactly the duplicate rows iff there are any,
\* and nothing else: at most two entries, each non-empty partition
\* retrievable by its name.
ZipName(stem) == [stem |-> stem, ext |-> "xlsx"]
ZipRead(zip, name) == zip.filelist[zip.NameToInfo[name]].data
SheetRows(frame) == [i \in 1..Len(frame.rows) |-> [k \in 1..Len(columns) |-> frame.rows[i].cells[columns[k]]]]
Retrievable(zip, name, frame) ==
    /\ name \in DOMAIN zip.NameToInfo
    /\ ZipRead(zip, name).header = columns
    /\ ZipRead(zip, name).rows = SheetRows(frame)
C9_ZipHoldsBothPartitions ==
    page.zip_buffer # None =>
        LET zip == page.zip_buffer
        IN  /\ Retrievable(zip, ZipName(page.result[4]), UniqueRows)
                <=> UniqueRows.rows # << >>
            /\ Retrievable(zip, ZipName(page.result[5]), DuplicateRows)
                <=> DuplicateRows.rows # << >>
            /\ \A e \in 1..Len(zip.filelist) :
                  zip.filelist[e].name \in
                      {ZipName(page.result[4]), ZipName(page.result[5])}
            /\ Len(zip.filelist) <= 2

\* C11: after an analysis run, the duplicate group summary is sorted by
\* count descending: of two consecutive groups the earlier has a count
\* greater than or equal to the later's.
Groups == page.duplicate_groups.groups
C11_SortedByCountDescending ==
    Executed =>
        \A g \in 1..(Len(Groups) - 1) : Groups[g].count >= Groups[g + 1].count
\* A summary of two groups of different sizes whose larger group has the
\* greater key, so that it is the sort by count that puts it first.
C11_Witness ==
    /\ Executed
    /\ Len(Groups) = 2
    /\ Groups[1].count > Groups[2].count
    /\ \E k \in 1..Len(selected_cols) :
          /\ Groups[1].key[k] > Groups[2].key[k]
          /\ \A m \in 1..(k - 1) : Groups[1].key[m] = Groups[2].key[m]

\* C12: an analysis run leaves the table as it was loaded (same rows,
\* columns, values and order): after all the statements of the run, the
\* object the caller's df names holds what load_data returned, which is the
\* uploaded file's table.  And the statements run once more, on the table
\* the run left and the same columns, bind uniqueRows, duplicateRows and the
\* group summary to what the first run put on the page, and leave the table
\* the same again.
Again == analysis(page.visualized, selected_cols)
====
